---- MODULE Spec2Model ----
(***************************************************************************)
(* AssetChain cNGN pipeline: the delta fetcher and the bounded concurrent  *)
(* processor of src/index.ts (variant A: one row per transaction, variant  *)
(* B: one row per cNGN transfer), the list fetcher of src/api.ts, and the  *)
(* daily VWAP builder of src/calculate_vwap.ts.                            *)
(***************************************************************************)
EXTENDS Integers, Sequences, FiniteSets, TLC

(***************************************************************************)
(* Bounds of the model.                                                    *)
(***************************************************************************)
NumHashes == 3        \* distinct transaction hashes the upstream may list
MaxTransfers == 3     \* length of the upstream transfer list
MaxRuns == 2          \* runs of the pipeline on the same ledger file
MaxListCalls == 4     \* calls of fetchTokenTransfersList in one run

(***************************************************************************)
(* Program constants.  The sizes are scaled down (the source has           *)
(* TARGET_COUNT 250000/180000, PROCESS_BATCH_SIZE 1000, fetchSize 1000,    *)
(* EXECUTION_CONCURRENCY 50); the order relations that the control flow    *)
(* depends on are kept: EXECUTION_CONCURRENCY < PROCESS_BATCH_SIZE,        *)
(* fetchSize <= PROCESS_BATCH_SIZE.  The retry counts and the delay are    *)
(* the source's.                                                           *)
(***************************************************************************)
TARGET_COUNT == 3
PROCESS_BATCH_SIZE == 3
fetchSize == 2
EXECUTION_CONCURRENCY == 2
ItemRetries == 3      \* let retries = 3 of the per-item loop
ListRetries == 15     \* let retries = 15 of fetchTokenTransfersList
ListDelay == 2000     \* let delay = 2000

Hashes == 1..NumHashes
NoHash == 0           \* an item without transaction_hash (falsy)
Undefined == 0        \* undefined / null next_page_params (falsy)
Null == 0 - 1         \* the null result of an item's promise

Variants == {"A", "B"}
\* Outcome of one HTTP request: a response, a rate limit, a server (or any
\* other) error, or the REQUEST_TIMEOUT.
HttpStatus == {"ok", "429", "500", "timeout"}
\* What a transaction's detail holds: the number of cNGN transfers, or a
\* malformed payload on which the enrichment throws; the thrown message may
\* happen to contain "429" or "500" (BigInt("1.500") throws
\* "Cannot convert 1.500 to a BigInt").
TxData == {"cngn0", "cngn1", "cngn2", "bad429", "bad500", "bad"}

VARIABLES
    variant,            \* which pipelineBatch runs (first or second index.ts)
    observeOrder,       \* history: whether the order of completions is recorded
    upstream,           \* the upstream transfer list: a sequence of hashes
    ledger,             \* data rows of OUTPUT_FILE, in file order
    seenHashes,
    recordsSaved,
    nextPageParams,
    currentBatchHashes,
    listResponse,       \* what the last fetchTokenTransfersList returned
    listStatus,         \* HTTP outcome of the last list attempt
    retries,            \* of the running fetchTokenTransfersList
    delay,              \* of the running fetchTokenTransfersList
    i,                  \* index of the for loop over the batch
    item,               \* the promises of the current chunk
    pc,
    runs,               \* number of the current run
    listCalls,          \* list calls made by the current run
    startLen,           \* history: Len(ledger) when the run started
    windowsOf,          \* history: per hash, the number of appends holding it
    handed,             \* history: per hash, the times a window took it up
    \* calculate_vwap.ts
    tz,                 \* the time zone the process runs in
    linesRead,          \* data lines of the ledger read so far
    dailyStats,
    minDate,
    maxDate,
    currentDate,        \* a time, in hours since day 0 00:00 UTC
    lastKnownVwap,
    results,
    vpc,
    qualDays,           \* history: the dates of the qualifying trades read
    line,               \* the columns 5-17 of the data line read last
    counted,            \* history: the trades that reached a bucket, with counts
    \* the amount decoding of processSingleTransaction
    decoder,            \* the variant whose decoder runs
    value,              \* item.total.value, a string of digits
    decimals,
    val,                \* the decoded amount
    decodeError,        \* the exception the decoding ended with, or NoError
    dpc,
    \* processSingleTransaction on the payload of one transaction
    txVariant,          \* the variant that processes the transaction
    token_transfers,    \* details.token_transfers / transfersResponse.items
    exchange_rate,      \* cngnItem.token.exchange_rate, or NoRate
    detailsFrom,        \* details.from.hash
    txResults,          \* the records returned
    threw,              \* the call ended with an exception
    epc,
    \* one ledger row written with escapeCsv and read with splitCsvLine
    fields,             \* the field strings of the record
    csvText,            \* the text appended to the ledger file
    readBack,           \* per line read, the fields splitCsvLine returns
    cpc,
    \* extract_trades.ts
    inputLines,         \* the lines of the ledger file, each as its fields
    lineNo,             \* lines read so far
    headers,
    count,
    written,            \* the lines written to the trades file
    xpc

pipeVars == <<variant, observeOrder, upstream, ledger, seenHashes, recordsSaved, nextPageParams,
              currentBatchHashes, listResponse, listStatus, retries, delay, i,
              item, pc, runs, listCalls, startLen, windowsOf,
              handed>>

vwapVars == <<tz, linesRead, dailyStats, minDate, maxDate, currentDate,
              lastKnownVwap, results, vpc, qualDays, line, counted>>

decodeVars == <<decoder, value, decimals, val, decodeError, dpc>>

enrichVars == <<txVariant, token_transfers, exchange_rate, detailsFrom, txResults,
                threw, epc>>

csvVars == <<fields, csvText, readBack, cpc>>

extractVars == <<inputLines, lineNo, headers, count, written, xpc>>

toolVars == <<decodeVars, enrichVars, csvVars, extractVars>>

vars == <<pipeVars, vwapVars, toolVars>>

Min(a, b) == IF a < b THEN a ELSE b

(***************************************************************************)
(* The upstream: the transfer list is served in pages of items_count       *)
(* items; the continuation token of a page names the next page.            *)
(***************************************************************************)
PageOf(token) == IF token = Undefined THEN 1 ELSE token

PageItems(p) ==
    SubSeq(upstream, (p - 1) * fetchSize + 1, Min(p * fetchSize, Len(upstream)))

PageNext(p) == IF p * fetchSize < Len(upstream) THEN p + 1 ELSE Undefined

UpstreamHashes == {upstream[k] : k \in 1..Len(upstream)}

\* Hashes are interchangeable: a list is taken up to renaming, each new hash
\* being the next unused one.
Canonical(s) ==
    \A k \in 1..Len(s) :
        \/ s[k] = 1
        \/ \E j \in 1..(k - 1) : s[j] = s[k] \/ s[j] = s[k] - 1

UpstreamLists ==
    {s \in UNION {[1..n -> Hashes] : n \in 0..MaxTransfers} : Canonical(s)}

(***************************************************************************)
(* Ledger rows.  A row is the record of one cNGN transfer (idx) of one     *)
(* transaction (hash); variant A writes idx 1 only.                        *)
(***************************************************************************)
Row(h, j) == [hash |-> h, idx |-> j]

LedgerHashes(l) == {l[k].hash : k \in 1..Len(l)}

\* Mutants: the header skip eats the first data line; nothing is loaded.
loadSkipsFirstLine(l) == {l[k].hash : k \in 2..Len(l)}
loadNothing(l) == {}

\* The first column of every data line.
loadExistingHashes(l) == {l[k].hash : k \in 1..Len(l)}

RECURSIVE SeqOfSet(_)
SeqOfSet(S) ==
    IF S = {} THEN <<>>
    ELSE LET m == CHOOSE x \in S : \A y \in S : x <= y
         IN <<Row(m, 1)>> \o SeqOfSet(S \ {m})

InitialLedgers == {SeqOfSet(S) : S \in SUBSET Hashes}

(***************************************************************************)
(* Collection: the dedup scan of one page.                                 *)
(***************************************************************************)
\* Mutant: the scan without the seenHashes test.
IsNewNoDedup(h, seen) == h # NoHash

\* if (h && !seenHashes.has(h))
IsNew(h, seen) == h # NoHash /\ h \notin seen

\* The scan puts the new hashes into the batch but not into seenHashes.
RECURSIVE ScanItemsNoAdd(_, _, _)
ScanItemsNoAdd(items, seen, batch) ==
    IF items = <<>> THEN [seen |-> seen, batch |-> batch]
    ELSE LET h == Head(items)
         IN IF IsNew(h, seen)
            THEN ScanItemsNoAdd(Tail(items), seen, Append(batch, h))
            ELSE ScanItemsNoAdd(Tail(items), seen, batch)

\* items.forEach (index.ts 262-270)
RECURSIVE ScanItems(_, _, _)
ScanItems(items, seen, batch) ==
    IF items = <<>> THEN [seen |-> seen, batch |-> batch]
    ELSE LET h == Head(items)
         IN IF IsNew(h, seen)
            THEN ScanItems(Tail(items), seen \cup {h}, Append(batch, h))
            ELSE ScanItems(Tail(items), seen, batch)

(***************************************************************************)
(* fetchTokenTransfersList.                                                *)
(***************************************************************************)
ListRetryable(http) == http \in {"timeout", "429"}

EmptyPage == [items |-> <<>>, next_page_params |-> Undefined]

\* The token counts only when the page brought a new hash.
hasNextPageAndNew(resp) ==
    /\ resp.next_page_params # Undefined
    /\ \E p \in 1..Len(resp.items) : resp.items[p] \notin seenHashes

\* if (listResponse.next_page_params)
hasNextPage(resp) == resp.next_page_params # Undefined

\* The caller's handling of the returned page (index.ts 258-290).
ReceivePage(resp) ==
    LET scan == ScanItems(resp.items, seenHashes, currentBatchHashes)
    IN /\ listResponse' = resp
       /\ IF Len(resp.items) > 0
          THEN /\ seenHashes' = scan.seen
               /\ currentBatchHashes' = scan.batch
               /\ IF hasNextPage(resp)
                  THEN /\ nextPageParams' = resp.next_page_params
                       /\ pc' = "collect"
                  ELSE /\ UNCHANGED nextPageParams
                       /\ pc' = "collected"
          ELSE /\ UNCHANGED <<seenHashes, currentBatchHashes, nextPageParams>>
               /\ pc' = "collected"

\* One attempt of the running list call, answered with http.  The call
\* returns the page, or EmptyPage; retries and delay end with the call.
ListAttempt ==
    /\ pc = "list"
    /\ \E http \in HttpStatus :
        /\ listStatus' = http
        /\ IF http = "ok"
           THEN /\ ReceivePage([items |-> PageItems(PageOf(nextPageParams)),
                                next_page_params |-> PageNext(PageOf(nextPageParams))])
                /\ retries' = 0
                /\ delay' = 0
           ELSE IF ListRetryable(http)
           THEN IF retries - 1 > 0
                THEN /\ retries' = retries - 1
                     /\ delay' = delay * 2
                     /\ UNCHANGED <<listResponse, seenHashes, currentBatchHashes,
                                    nextPageParams, pc>>
                ELSE /\ ReceivePage(EmptyPage)
                     /\ retries' = 0
                     /\ delay' = 0
           ELSE /\ ReceivePage(EmptyPage)
                /\ retries' = 0
                /\ delay' = 0
    /\ UNCHANGED <<variant, observeOrder, upstream, ledger, recordsSaved, i, item, runs,
                   listCalls, startLen, windowsOf, handed,
                   vwapVars, toolVars>>

(***************************************************************************)
(* pipelineBatch: start-up and the loops' tests.                           *)
(***************************************************************************)
Startup ==
    /\ pc = "start"
    /\ seenHashes' = loadExistingHashes(ledger)
    /\ recordsSaved' = Cardinality(loadExistingHashes(ledger))
    /\ nextPageParams' = Undefined
    /\ pc' = "outer"
    /\ UNCHANGED <<variant, observeOrder, upstream, ledger, currentBatchHashes, listResponse,
                   listStatus, retries, delay, i, item, runs, listCalls,
                   startLen, windowsOf, handed,
                   vwapVars, toolVars>>

\* The loop goes on with the counter at the target.
BelowOrAtTarget(n) == n <= TARGET_COUNT

\* recordsSaved < TARGET_COUNT
BelowTarget(n) == n < TARGET_COUNT

\* while (recordsSaved < TARGET_COUNT)
OuterTest ==
    /\ pc = "outer"
    /\ IF BelowTarget(recordsSaved)
       THEN /\ currentBatchHashes' = <<>>
            /\ pc' = "collect"
       ELSE /\ UNCHANGED currentBatchHashes
            /\ pc' = "done"
    /\ UNCHANGED <<variant, observeOrder, upstream, ledger, seenHashes, recordsSaved,
                   nextPageParams, listResponse, listStatus, retries, delay, i,
                   item, runs, listCalls, startLen, windowsOf, handed,
                   vwapVars, toolVars>>

\* while (currentBatchHashes.length < PROCESS_BATCH_SIZE): the next list call.
CollectTest ==
    /\ pc = "collect"
    /\ IF Len(currentBatchHashes) < PROCESS_BATCH_SIZE
       THEN /\ listCalls < MaxListCalls
            /\ listCalls' = listCalls + 1
            /\ retries' = ListRetries
            /\ delay' = ListDelay
            /\ pc' = "list"
       ELSE /\ UNCHANGED <<listCalls, retries, delay>>
            /\ pc' = "collected"
    /\ UNCHANGED <<variant, observeOrder, upstream, ledger, seenHashes, recordsSaved,
                   nextPageParams, currentBatchHashes, listResponse, listStatus,
                   i, item, runs, startLen, windowsOf, handed,
                   vwapVars, toolVars>>

\* if (currentBatchHashes.length === 0): variant A goes on, variant B stops.
StopsOnEmptyBatch(v) == v = "B"

Collected ==
    /\ pc = "collected"
    /\ IF Len(currentBatchHashes) = 0 /\ StopsOnEmptyBatch(variant)
       THEN pc' = "done" /\ UNCHANGED i
       ELSE pc' = "for" /\ i' = 0
    /\ UNCHANGED <<variant, observeOrder, upstream, ledger, seenHashes, recordsSaved,
                   nextPageParams, currentBatchHashes, listResponse, listStatus,
                   retries, delay, item, runs, listCalls, startLen, windowsOf, handed,
                   vwapVars, toolVars>>

(***************************************************************************)
(* The window loop.                                                        *)
(***************************************************************************)
\* Mutant: the slice one item too long.
ChunkOffByOne(batch, from) ==
    SubSeq(batch, from + 1, Min(from + EXECUTION_CONCURRENCY + 1, Len(batch)))

\* currentBatchHashes.slice(i, i + EXECUTION_CONCURRENCY)
Chunk(batch, from) ==
    SubSeq(batch, from + 1, Min(from + EXECUTION_CONCURRENCY, Len(batch)))

\* calls is history: the invocations of processSingleTransaction so far.
\* rank is history: the place of the promise in the order in which the
\* promises of the chunk settled (0: not settled, or the order is not observed).
NewItem(h) ==
    [hash |-> h, st |-> "call", retries |-> ItemRetries, out |-> Null,
     sig |-> "none", err |-> "none", calls |-> 0, rank |-> 0]

Occurrences(s, h) == Cardinality({p \in 1..Len(s) : s[p] = h})

\* for (let i = 0; i < currentBatchHashes.length; ...): chunk.map starts
\* every promise of the chunk.
ForTest ==
    /\ pc = "for"
    /\ IF i < Len(currentBatchHashes)
       THEN /\ item' = [k \in 1..Len(Chunk(currentBatchHashes, i)) |->
                           NewItem(Chunk(currentBatchHashes, i)[k])]
            /\ handed' = [h \in Hashes |->
                             handed[h] + Occurrences(Chunk(currentBatchHashes, i), h)]
            /\ pc' = "window"
       ELSE /\ item' = <<>>
            /\ UNCHANGED handed
            /\ pc' = "after"
    /\ UNCHANGED <<variant, observeOrder, upstream, ledger, seenHashes, recordsSaved,
                   nextPageParams, currentBatchHashes, listResponse, listStatus,
                   retries, delay, i, runs, listCalls, startLen, windowsOf,
                   vwapVars, toolVars>>

\* What processSingleTransaction does with the fetched payload.
Returned(n) == [kind |-> "return", n |-> n, cls |-> "none"]
Threw(cls) == [kind |-> "throw", n |-> 0, cls |-> cls]

Enrich(v, data) ==
    CASE data = "cngn0" -> Returned(0)
      [] data = "cngn1" -> Returned(1)
      [] data = "cngn2" -> Returned(IF v = "A" THEN 1 ELSE 2)
      [] data = "bad429" -> Threw("429")
      [] data = "bad500" -> Threw("500")
      [] OTHER -> Threw("other")

\* The catch of the per-item loop: which failures are retried.
Retried(cls) == cls \in {"429", "500"}

\* Mutant: the final else of the catch rethrows.
RejectsOther(cls) == cls = "other"

\* The catch handles every failure: no promise of the chunk rejects.
Rejects(cls) == FALSE

\* The promises of the chunk that have settled.
Finished == Cardinality({k \in DOMAIN item : item[k].st = "done"})
NextRank == IF observeOrder THEN Finished + 1 ELSE 0

Settle(it, res) ==
    IF res.kind = "return"
    THEN [it EXCEPT !.st = "done", !.out = res.n, !.rank = NextRank]
    ELSE IF Retried(res.cls)
    THEN [it EXCEPT !.st = "backoff", !.err = res.cls]
    ELSE [it EXCEPT !.st = "done", !.out = Null, !.err = res.cls,
                    !.rank = NextRank]

ItemFrame ==
    UNCHANGED <<variant, observeOrder, upstream, ledger, seenHashes, recordsSaved,
                nextPageParams, currentBatchHashes, listResponse, listStatus,
                retries, delay, i, runs, listCalls, startLen, windowsOf, handed,
                   vwapVars, toolVars>>

\* fetchTransactionDetailsV2: after sleep(SLEEP_MS) the request goes out.
SendDetail(k) ==
    /\ pc = "window"
    /\ item[k].st = "call"
    /\ item' = [item EXCEPT ![k].st = "inflight", ![k].calls = item[k].calls + 1]
    /\ UNCHANGED pc
    /\ ItemFrame

\* The detail request is answered.  fetchTransactionDetailsV2 catches every
\* error and returns null.  Variant A returns [] on null and enriches
\* otherwise; variant B first awaits fetchTokenTransfersV2.
DetailResults(v, http) ==
    IF http = "ok" THEN {Enrich(v, data) : data \in TxData} ELSE {Returned(0)}

DetailResponse(k) ==
    /\ pc = "window"
    /\ item[k].st = "inflight"
    /\ \E http \in HttpStatus :
        LET it == [item[k] EXCEPT !.sig = http]
        IN IF variant = "B"
           THEN /\ item' = [item EXCEPT ![k] = [it EXCEPT !.st = "transfers"]]
                /\ UNCHANGED pc
           ELSE \E res \in DetailResults(variant, http) :
                IF res.kind = "throw" /\ Rejects(res.cls)
                THEN /\ item' = [item EXCEPT ![k] = it]
                     /\ pc' = "failed"
                ELSE /\ item' = [item EXCEPT ![k] = Settle(it, res)]
                     /\ UNCHANGED pc
    /\ ItemFrame

\* fetchTokenTransfersV2 is imported from ./api but is not part of the
\* sources at hand: it may hand back the transfer items, hand back nothing,
\* or throw, with a message that names 429, 500 or neither.
TransfersOutcomes == {"items", "null", "throw429", "throw500", "throw"}

\* Variant B: what processSingleTransaction does once fetchTokenTransfersV2
\* has ended: the null checks, then the enrichment (index.ts 425-543).
TransfersResult(t, v, sig, data) ==
    CASE t = "throw429" -> Threw("429")
      [] t = "throw500" -> Threw("500")
      [] t = "throw" -> Threw("other")
      [] t = "null" -> Returned(0)
      [] OTHER -> IF sig = "ok" THEN Enrich(v, data) ELSE Returned(0)

TransfersResponse(k) ==
    /\ pc = "window"
    /\ item[k].st = "transfers"
    /\ \E res \in {TransfersResult(t, variant, item[k].sig, data) :
                       t \in TransfersOutcomes, data \in TxData} :
        IF res.kind = "throw" /\ Rejects(res.cls)
        THEN /\ UNCHANGED item
             /\ pc' = "failed"
        ELSE /\ item' = [item EXCEPT ![k] = Settle(item[k], res)]
             /\ UNCHANGED pc
    /\ ItemFrame

\* The loop goes on for one attempt more than its budget.
RetriesLeftOrLast(r) == r >= 0

\* while (retries > 0)
RetriesLeft(r) == r > 0

\* The backoff sleep ends: retries--, and the loop test.
BackoffDone(k) ==
    /\ pc = "window"
    /\ item[k].st = "backoff"
    /\ item' = [item EXCEPT ![k] =
                  IF RetriesLeft(item[k].retries - 1)
                  THEN [item[k] EXCEPT !.retries = item[k].retries - 1, !.st = "call",
                                       !.sig = "none", !.err = "none"]
                  ELSE [item[k] EXCEPT !.retries = item[k].retries - 1, !.st = "done",
                                       !.out = Null, !.rank = NextRank]]
    /\ UNCHANGED pc
    /\ ItemFrame

\* results.reduce: the records of the chunk, in chunk order.
RowsOf(it) == IF it.out > 0 THEN [j \in 1..it.out |-> Row(it.hash, j)] ELSE <<>>

\* The records of the chunk in the reverse of the chunk order.
RECURSIVE validResultsReversed(_)
validResultsReversed(items) ==
    IF items = <<>> THEN <<>>
    ELSE validResultsReversed(Tail(items)) \o RowsOf(Head(items))

RECURSIVE validResults(_)
validResults(items) ==
    IF items = <<>> THEN <<>>
    ELSE RowsOf(Head(items)) \o validResults(Tail(items))

\* Promise.all resolved: one appendFileSync for the chunk.
\* The file is written anew instead of appended to.
writeFileSync(file, rows) == rows

\* fs.appendFileSync(OUTPUT_FILE, ...); nothing is written without records.
appendFileSync(file, rows) == file \o rows

\* The window ends with the first promise that settles.
FirstSettled(its) == \E k \in 1..Len(its) : its[k].st = "done"

\* await Promise.all(promises): every promise of the chunk has settled.
AllSettled(its) == \A k \in 1..Len(its) : its[k].st = "done"

AppendWindow ==
    /\ pc = "window"
    /\ AllSettled(item)
    /\ LET rows == validResults(item)
       IN /\ ledger' = appendFileSync(ledger, rows)
          /\ recordsSaved' = recordsSaved + Len(rows)
          /\ windowsOf' = [h \in Hashes |->
                             IF h \in LedgerHashes(rows)
                             THEN windowsOf[h] + 1 ELSE windowsOf[h]]
    /\ pc' = "pause"
    /\ UNCHANGED <<variant, observeOrder, upstream, seenHashes, nextPageParams,
                   currentBatchHashes, listResponse, listStatus, retries, delay,
                   i, item, runs, listCalls, startLen, handed, vwapVars, toolVars>>

\* await sleep(50); i += EXECUTION_CONCURRENCY
PauseDone ==
    /\ pc = "pause"
    /\ i' = i + EXECUTION_CONCURRENCY
    /\ pc' = "for"
    /\ UNCHANGED <<variant, observeOrder, upstream, ledger, seenHashes, recordsSaved,
                   nextPageParams, currentBatchHashes, listResponse, listStatus,
                   retries, delay, item, runs, listCalls, startLen, windowsOf, handed,
                   vwapVars, toolVars>>

\* The checks after the window loop (index.ts 365-376).
AfterBatch ==
    /\ pc = "after"
    /\ IF recordsSaved >= TARGET_COUNT
       THEN pc' = "done"
       ELSE IF nextPageParams = Undefined
               /\ Len(currentBatchHashes) < PROCESS_BATCH_SIZE
       THEN pc' = "done"
       ELSE pc' = "outer"
    /\ UNCHANGED <<variant, observeOrder, upstream, ledger, seenHashes, recordsSaved,
                   nextPageParams, currentBatchHashes, listResponse, listStatus,
                   retries, delay, i, item, runs, listCalls, startLen, windowsOf, handed,
                   vwapVars, toolVars>>

\* The process is stopped at any point, or has ended, and is started again:
\* only the ledger file survives.
Restart ==
    /\ pc # "start"
    /\ runs < MaxRuns
    /\ runs' = runs + 1
    /\ pc' = "start"
    /\ seenHashes' = {}
    /\ recordsSaved' = 0
    /\ nextPageParams' = Undefined
    /\ currentBatchHashes' = <<>>
    /\ listResponse' = EmptyPage
    /\ listStatus' = "none"
    /\ retries' = 0
    /\ delay' = 0
    /\ i' = 0
    /\ item' = <<>>
    /\ listCalls' = 0
    /\ startLen' = Len(ledger)
    /\ handed' = [h \in Hashes |-> 0]
    /\ UNCHANGED <<variant, observeOrder, upstream, ledger, windowsOf, vwapVars, toolVars>>

(***************************************************************************)
(* calculate_vwap.ts.  Dates are day numbers (the order of the 'YYYY-MM-DD' *)
(* strings is the order of the days), times are hours since day 0 00:00     *)
(* UTC, amounts are in units of 0.000001.                                   *)
(***************************************************************************)
MaxLines == 3         \* data lines of the ledger file
MaxDay == 4           \* the dates of the ledger rows are days 0..MaxDay
DstDay == 2           \* the day on which a zone with DST changes its offset
SafetyDay == 4        \* SAFETY_YEAR_LIMIT, new Date('2030-01-01'), as a day
Dust == 1             \* 0.000001

Days == 0..MaxDay
NoDate == 0 - 1       \* minDate = '' / maxDate = ''
NaN == 0 - 1          \* parseFloat of a field that is no number

\* The process's time zone: UTC, a zone that moves its clock forward on
\* DstDay at 02:00 local time (UTC-5 to UTC-4), one that moves it back
\* (UTC-4 to UTC-5).
TimeZones ==
    { [before |-> 0, after |-> 0, at |-> 0],
      [before |-> 0 - 5, after |-> 0 - 4, at |-> DstDay * 24 + 7],
      [before |-> 0 - 4, after |-> 0 - 5, at |-> DstDay * 24 + 6] }

\* Ledger rows as the builder reads them: columns 2, 6, 9, 12, 14, 15, 17,
\* and column 5 (interacted_contract_address), which it does not read:
\* "router" is the address of the designated swap router, "other" any other.
Qualifiers ==
    { [contractAddress |-> "router", contractName |-> "SwapRouter",
       tokenInSym |-> "USDT", tokenOutSym |-> "cNGN", poolName |-> ""],
      [contractAddress |-> "router", contractName |-> "SwapRouter",
       tokenInSym |-> "cNGN", tokenOutSym |-> "USDC", poolName |-> ""],
      [contractAddress |-> "router", contractName |-> "SwapRouter",
       tokenInSym |-> "cNGN", tokenOutSym |-> "RWM",
       poolName |-> "UniswapV3Pool (cNGN/USDT)"],
      [contractAddress |-> "router", contractName |-> "SwapRouter",
       tokenInSym |-> "cNGN", tokenOutSym |-> "RWM", poolName |-> "cNGN / RWM"],
      [contractAddress |-> "other", contractName |-> "UniswapV3Router",
       tokenInSym |-> "USDT", tokenOutSym |-> "cNGN",
       poolName |-> "UniswapV3Pool (cNGN/USDT)"],
      [contractAddress |-> "other", contractName |-> "SwapRouter",
       tokenInSym |-> "USDT", tokenOutSym |-> "cNGN", poolName |-> ""] }

\* <<cngn_amount, usd_value>>
AmountPairs ==
    { <<2, 2>>, <<2, 4>>, <<4, 2>>, <<1, 2>>, <<2, 1>>, <<0, 2>>, <<NaN, 2>>,
      <<2, NaN>> }

\* The line with columns q and amounts amt.
DataLine(q, amt) ==
    [contractAddress |-> q.contractAddress,
     contractName |-> q.contractName, tokenInSym |-> q.tokenInSym,
     tokenOutSym |-> q.tokenOutSym, poolName |-> q.poolName,
     cngnRaw |-> amt[1], usdRaw |-> amt[2]]

NoLine ==
    [contractAddress |-> "", contractName |-> "", tokenInSym |-> "",
     tokenOutSym |-> "", poolName |-> "", cngnRaw |-> NaN, usdRaw |-> NaN]

StablePools == {"UniswapV3Pool (cNGN/USDT)"}   \* the names with USDT or USDC

isSwapRouter(q) == q.contractName = "SwapRouter"

isStablecoinTrade(q) ==
    \/ q.tokenInSym = "USDT" \/ q.tokenInSym = "USDC"
    \/ q.tokenOutSym = "USDT" \/ q.tokenOutSym = "USDC"

isPoolMatch(q) == q.poolName # "" /\ q.poolName \in StablePools

\* An amount of exactly 0.000001 is kept.
isDustBelow(amt) == amt[1] < Dust \/ amt[2] < Dust

\* if (cngnAmount <= 0.000001 || usdValue <= 0.000001) return
isDust(amt) == amt[1] <= Dust \/ amt[2] <= Dust

\* The row reaches the bucket update (lines 130-138).
Counted(q, amt) ==
    /\ isSwapRouter(q) /\ (isStablecoinTrade(q) \/ isPoolMatch(q))
    /\ amt[1] # NaN /\ amt[2] # NaN
    /\ ~isDust(amt)

NoStat == [totalUsd |-> 0, totalCngn |-> 0]

\* The bucket keeps the trade read last instead of the sums.
AddTradeOverwrite(stat, amt) == [totalUsd |-> amt[2], totalCngn |-> amt[1]]

\* stat.totalCngn += cngnAmount; stat.totalUsd += usdValue
AddTrade(stat, amt) ==
    [totalUsd |-> stat.totalUsd + amt[2], totalCngn |-> stat.totalCngn + amt[1]]

Trade(dateKey, amt) == [date |-> dateKey, cngn |-> amt[1], usd |-> amt[2]]

AddToBag(b, t) ==
    [x \in (DOMAIN b) \cup {t} |->
        IF x = t THEN (IF t \in DOMAIN b THEN b[t] + 1 ELSE 1) ELSE b[x]]

\* rl.on('line') for one data line.
ReadLine ==
    /\ vpc = "read"
    /\ linesRead < MaxLines
    /\ linesRead' = linesRead + 1
    /\ \E dateKey \in Days, q \in Qualifiers, amt \in AmountPairs :
        /\ line' = DataLine(q, amt)
        /\ IF Counted(q, amt)
           THEN LET stat == IF dateKey \in DOMAIN dailyStats
                            THEN dailyStats[dateKey] ELSE NoStat
                IN /\ dailyStats' =
                        [d \in (DOMAIN dailyStats) \cup {dateKey} |->
                           IF d = dateKey THEN AddTrade(stat, amt) ELSE dailyStats[d]]
                   /\ minDate' = IF minDate = NoDate \/ dateKey < minDate
                                 THEN dateKey ELSE minDate
                   /\ maxDate' = IF maxDate = NoDate \/ dateKey > maxDate
                                 THEN dateKey ELSE maxDate
                   /\ qualDays' = qualDays \cup {dateKey}
                   /\ counted' = AddToBag(counted, Trade(dateKey, amt))
           ELSE UNCHANGED <<dailyStats, minDate, maxDate, qualDays, counted>>
    /\ UNCHANGED <<tz, currentDate, lastKnownVwap, results, vpc, pipeVars, toolVars>>

ZeroPrice == [num |-> 0, den |-> 1]

\* rl.on('close'), lines 158-172.
CloseInput ==
    /\ vpc = "read"
    /\ IF minDate = NoDate
       THEN /\ vpc' = "done"
            /\ UNCHANGED <<currentDate, lastKnownVwap, results>>
       ELSE /\ currentDate' = minDate * 24
            /\ lastKnownVwap' = ZeroPrice
            /\ results' = <<>>
            /\ vpc' = "walk"
    /\ line' = NoLine
    /\ UNCHANGED <<tz, linesRead, dailyStats, minDate, maxDate, qualDays, counted, pipeVars, toolVars>>

\* Date arithmetic of the walk.  toISOString is UTC; getDate and setDate are
\* local time.
Offset(t) == IF t < tz.at THEN tz.before ELSE tz.after

LocalToUtc(l) == IF l - tz.before < tz.at THEN l - tz.before ELSE l - tz.after

toISODate(t) == t \div 24

\* currentDate.setDate(currentDate.getDate() + 1)
NextDay(t) == LocalToUtc(t + Offset(t) + 24)

\* A zero-volume date gets price 0 instead of the last known price.
DailyRecordNoCarry(dateKey, stats, last) ==
    IF dateKey \in DOMAIN stats /\ stats[dateKey].totalCngn > 0
    THEN [date |-> dateKey,
          vwap |-> [num |-> stats[dateKey].totalUsd, den |-> stats[dateKey].totalCngn],
          volumeCngn |-> stats[dateKey].totalCngn,
          volumeUsd |-> stats[dateKey].totalUsd]
    ELSE [date |-> dateKey, vwap |-> ZeroPrice, volumeCngn |-> 0, volumeUsd |-> 0]

\* The record of one date (lines 180-204): the day's price and volumes when
\* the date has a bucket with positive token volume, else the last known
\* price and zero volumes.  The price is kept as the fraction totalUsd /
\* totalCngn.
DailyRecord(dateKey, stats, last) ==
    IF dateKey \in DOMAIN stats /\ stats[dateKey].totalCngn > 0
    THEN [date |-> dateKey,
          vwap |-> [num |-> stats[dateKey].totalUsd, den |-> stats[dateKey].totalCngn],
          volumeCngn |-> stats[dateKey].totalCngn,
          volumeUsd |-> stats[dateKey].totalUsd]
    ELSE [date |-> dateKey, vwap |-> last, volumeCngn |-> 0, volumeUsd |-> 0]

\* One turn of the while loop, or its end and the write of the output.
WalkStep ==
    /\ vpc = "walk"
    /\ IF currentDate <= maxDate * 24 /\ currentDate < SafetyDay * 24
       THEN LET rec == DailyRecord(toISODate(currentDate), dailyStats, lastKnownVwap)
            IN /\ results' = Append(results, rec)
               /\ lastKnownVwap' = rec.vwap
               /\ currentDate' = NextDay(currentDate)
               /\ UNCHANGED vpc
       ELSE /\ vpc' = "done"
            /\ UNCHANGED <<results, lastKnownVwap, currentDate>>
    /\ UNCHANGED <<tz, linesRead, dailyStats, minDate, maxDate, qualDays, line,
                   counted, pipeVars, toolVars>>

(***************************************************************************)
(* Amount decoding (index.ts 117-127 and 486-496).  A string of digits is  *)
(* a sequence over 0..9; the text handed to parseFloat is the pair of the  *)
(* digits before and after the point.                                      *)
(***************************************************************************)
MaxRawLen == 3        \* digits of item.total.value
MaxDecimals == 3      \* item.token.decimals is in 0..MaxDecimals
MaxNegDecimals == 2   \* a malformed item.token.decimals is in -MaxNegDecimals..-1

Digits == 0..9
DigitStrings == UNION {[1..n -> Digits] : n \in 1..MaxRawLen}

\* A character that is no digit, no sign and no blank, such as a letter.
NonDigit == 10
\* item.total.value missing or the empty string: falsy in the test of line 118.
NoValue == <<>>
\* Raw amounts that are no string of digits: "", "a", "1a", "a2".
MalformedValues == {NoValue, <<NonDigit>>, <<1, NonDigit>>, <<NonDigit, 2>>}

\* BigInt(s) returns for a string of digits and throws a SyntaxError for one
\* with a letter.
isNumeric(s) == \A k \in 1..Len(s) : s[k] \in Digits

\* s.slice(from, to) and s.slice(from) for 0 <= from: the ends are clamped to
\* the length of s.
slice(s, from, to) == SubSeq(s, Min(from, Len(s)) + 1, Min(to, Len(s)))

RECURSIVE Pow10(_)
Pow10(n) == IF n = 0 THEN 1 ELSE 10 * Pow10(n - 1)

\* BigInt(s)
RECURSIVE BigInt(_)
BigInt(s) == IF s = <<>> THEN 0 ELSE BigInt(SubSeq(s, 1, Len(s) - 1)) * 10 + s[Len(s)]

\* rawVal.toString(): the digits without leading zeros.
RECURSIVE toString(_)
toString(s) == IF Len(s) > 1 /\ s[1] = 0 THEN toString(Tail(s)) ELSE s

\* The short amount is not padded.
padStartNone(s, n) == s

\* str.padStart(n, '0')
RECURSIVE padStart(_, _)
padStart(s, n) == IF Len(s) >= n THEN s ELSE padStart(<<0>> \o s, n)

\* fractionalPart.replace(/0+$/, '')
RECURSIVE stripTrailingZeros(_)
stripTrailingZeros(s) ==
    IF s # <<>> /\ s[Len(s)] = 0
    THEN stripTrailingZeros(SubSeq(s, 1, Len(s) - 1)) ELSE s

\* while (s.length <= decimals) s = '0' + s
RECURSIVE padLeft(_, _)
padLeft(s, d) == IF Len(s) <= d THEN padLeft(<<0>> \o s, d) ELSE s

\* parseFloat of the text int '.' frac (or of int alone when frac is empty):
\* the number num / 10^scale.  The rounding of the parse to a double is left
\* out.
parseFloat(int, frac) == [num |-> BigInt(int \o frac), scale |-> Len(frac)]

\* Variant A, lines 121-126.
DecodeA(raw, d) ==
    LET str == toString(raw)
    IN IF Len(str) > d
       THEN parseFloat(slice(str, 0, Len(str) - d),
                       slice(str, Len(str) - d, Len(str)))
       ELSE parseFloat(<<0>>, padStart(str, d))

\* Variant B, lines 489-495.
DecodeB(raw, d) ==
    LET s == padLeft(toString(raw), d)
        integerPart == slice(s, 0, Len(s) - d)
        fractionalPart == stripTrailingZeros(slice(s, Len(s) - d, Len(s)))
    IN parseFloat(integerPart, fractionalPart)

Decode(v, raw, d) == IF v = "A" THEN DecodeA(raw, d) ELSE DecodeB(raw, d)

NoVal == [num |-> 0 - 1, scale |-> 0]

NoError == "none"

\* let val = 0 (variant A), let cngnVal = null (variant B): the amount of a
\* transfer whose value is skipped by the test of line 118 (487).
Skipped(v) == IF v = "A" THEN [num |-> 0, scale |-> 0] ELSE NoVal

DecodeAmount ==
    /\ dpc = "decode"
    /\ IF value = NoValue
       THEN val' = Skipped(decoder) /\ decodeError' = NoError
       ELSE IF ~isNumeric(value)
       THEN val' = val /\ decodeError' = "SyntaxError"
       ELSE val' = Decode(decoder, value, decimals) /\ decodeError' = NoError
    /\ dpc' = "done"
    /\ UNCHANGED <<decoder, value, decimals, pipeVars, vwapVars, enrichVars, csvVars,
                   extractVars>>

DecodeIdle ==
    /\ decoder = "A"
    /\ value = <<0>>
    /\ decimals = 0
    /\ val = NoVal
    /\ decodeError = NoError
    /\ dpc = "idle"

(***************************************************************************)
(* processSingleTransaction on a fetched payload (index.ts 59-183 and      *)
(* 431-543): which records it returns and how it values them.  A transfer  *)
(* is its token and its total.value (<<>> when the field is missing); the  *)
(* token stands for both its address and its symbol.  Amounts are counted  *)
(* in units of 10^-ItemDecimals; a USD value is a fraction of such units.  *)
(* The two sides of a transfer are a hash and a name; a name is the        *)
(* sequence of its words (<<>> without name), name.includes(w) asks for    *)
(* the word w.                                                             *)
(***************************************************************************)
MaxItems == 3         \* transfers of one transaction
ItemDecimals == 1     \* item.token.decimals of every token of the model

FallbackNum == 657    \* CNGN_USD_FALLBACK = 0.000657
FallbackDen == 1000000

Tokens == {"cNGN", "USDT", "USDC", "RWM"}
ItemValues == {NoValue, <<0>>, <<2, 5>>, <<4, 0>>}
\* String.prototype.includes
includes(str, c) == \E k \in 1..Len(str) : str[k] = c

\* String.prototype.toLowerCase on the strings of the model.
toLowerCase(str) ==
    CASE str = "0xEC2B" -> "0xec2b"
      [] str = "0xA1" -> "0xa1"
      [] str = "SwapRouter" -> "swaprouter"
      [] str = "UniswapV3Router" -> "uniswapv3router"
      [] OTHER -> str

NoAddress == ""       \* '' or null: the empty field of the ledger

Alice == [hash |-> "0xA1", name |-> <<>>]
AliceLower == [hash |-> "0xa1", name |-> <<>>]
Bob == [hash |-> "0xb0", name |-> <<>>]
Pool == [hash |-> "0xe2a4", name |-> <<"Uniswap", "V3", "Pool">>]
Router == [hash |-> "0x5452", name |-> <<"Uniswap", "V3", "Router">>]

\* The valuation is looked at on transfers from one trader to one pool.
TransferItems == [token : Tokens, value : ItemValues, from : {Alice}, to : {Pool}]
ItemLists == UNION {[1..n -> TransferItems] : n \in 0..MaxItems}

NoRate == [num |-> 0 - 1, den |-> 1]
ExchangeRates == {NoRate, [num |-> 1, den |-> 1000]}
CNGN_USD_FALLBACK == [num |-> FallbackNum, den |-> FallbackDen]

isCngn(it) == it.token = "cNGN"
isStable(it) == it.token = "USDT" \/ it.token = "USDC"

\* The decoded amount in units of 10^-ItemDecimals.
Units(v) == v.num * Pow10(ItemDecimals - v.scale)

\* Variant A: let val = 0; if (item.total && item.total.value) ...
ValA(it) == IF it.value # NoValue THEN Units(DecodeA(it.value, ItemDecimals)) ELSE 0

\* Variant B: the decoded amount, or null (Null) without total.value.
ValB(it) == IF it.value # NoValue THEN Units(DecodeB(it.value, ItemDecimals)) ELSE Null

hasCngn(its) == \E k \in 1..Len(its) : isCngn(its[k])

\* Every transfer counts as a transfer of cNGN.
cngnItemsAll(its) == its

\* items.filter(i => i.token.address is CNGN_ADDRESS)
cngnItems(its) == SelectSeq(its, isCngn)

\* The for loop of variant A: cngnAmt is the sum over the cNGN transfers,
\* usdValue the amount of the last USDT or USDC transfer (0 without one).
RECURSIVE cngnAmt(_)
cngnAmt(its) ==
    IF its = <<>> THEN 0
    ELSE cngnAmt(SubSeq(its, 1, Len(its) - 1))
           + (IF isCngn(its[Len(its)]) THEN ValA(its[Len(its)]) ELSE 0)

RECURSIVE usdValue(_)
usdValue(its) ==
    IF its = <<>> THEN 0
    ELSE IF isStable(its[Len(its)]) THEN ValA(its[Len(its)])
    ELSE usdValue(SubSeq(its, 1, Len(its) - 1))

Times(n, rate) == [num |-> n * rate.num, den |-> rate.den]
Whole(n) == [num |-> n, den |-> 1]

\* a.toLowerCase() === b.toLowerCase()
sameAddress(a, b) == toLowerCase(a) = toLowerCase(b)

\* Variant A, lines 129-136: the pool is a side of a cNGN transfer whose
\* name has 'Pool', the 'to' side first; the last such transfer decides.
RECURSIVE poolAddress(_)
poolAddress(its) ==
    IF its = <<>> THEN NoAddress
    ELSE LET it == its[Len(its)]
         IN IF isCngn(it) /\ includes(it.to.name, "Pool") THEN it.to.hash
            ELSE IF isCngn(it) /\ includes(it.from.name, "Pool") THEN it.from.hash
            ELSE poolAddress(SubSeq(its, 1, Len(its) - 1))

\* The token of the last transfer sent by the trader (lines 138-139, 468-470).
RECURSIVE tokenIn(_, _)
tokenIn(its, trader) ==
    IF its = <<>> THEN NoAddress
    ELSE IF sameAddress(its[Len(its)].from.hash, trader) THEN its[Len(its)].token
    ELSE tokenIn(SubSeq(its, 1, Len(its) - 1), trader)

\* Variant A, lines 140-141: else if, a transfer sent by the trader is not
\* looked at as one received.
RECURSIVE tokenOutAddr(_, _)
tokenOutAddr(its, trader) ==
    IF its = <<>> THEN NoAddress
    ELSE IF /\ ~sameAddress(its[Len(its)].from.hash, trader)
            /\ sameAddress(its[Len(its)].to.hash, trader)
    THEN its[Len(its)].token
    ELSE tokenOutAddr(SubSeq(its, 1, Len(its) - 1), trader)

\* Variant B, lines 471-473.
RECURSIVE tokenOut(_, _)
tokenOut(its, trader) ==
    IF its = <<>> THEN NoAddress
    ELSE IF sameAddress(its[Len(its)].to.hash, trader) THEN its[Len(its)].token
    ELSE tokenOut(SubSeq(its, 1, Len(its) - 1), trader)

ProcessA(its) ==
    IF ~hasCngn(its) THEN <<>>
    ELSE << [cngn_amount |-> cngnAmt(its),
             usd_value |-> IF usdValue(its) = 0 /\ cngnAmt(its) > 0
                           THEN Times(cngnAmt(its), CNGN_USD_FALLBACK)
                           ELSE Whole(usdValue(its)),
             trader_address |-> detailsFrom,
             pool_address |-> poolAddress(its),
             token_in_address |-> tokenIn(its, detailsFrom),
             token_out_address |-> tokenOutAddr(its, detailsFrom)] >>

\* Variant B, lines 449-460.
poolLike(side) == includes(side.name, "Pool") \/ includes(side.name, "Uniswap")

traderAddress(cngnItem) ==
    IF poolLike(cngnItem.to) THEN cngnItem.from.hash
    ELSE IF poolLike(cngnItem.from) THEN cngnItem.to.hash
    ELSE cngnItem.from.hash

poolAddressB(cngnItem) ==
    IF poolLike(cngnItem.to) THEN cngnItem.to.hash
    ELSE IF poolLike(cngnItem.from) THEN cngnItem.from.hash
    ELSE cngnItem.to.hash

\* items.find(i => i.token.symbol === 'USDT'): its index, 0 without one.
usdtItem(its) ==
    IF \E k \in 1..Len(its) : its[k].token = "USDT"
    THEN CHOOSE k \in 1..Len(its) :
            /\ its[k].token = "USDT"
            /\ \A j \in 1..(k - 1) : its[j].token # "USDT"
    ELSE 0

\* The record of one cNGN transfer in variant B (lines 486-518).
RecordB(its, cngnItem, rate) ==
    LET cngnVal == ValB(cngnItem)
        u == usdtItem(its)
    IN [cngn_amount |-> cngnVal,
        usd_value |->
            IF u # 0 /\ its[u].value # NoValue
            THEN Whole(ValB(its[u]))
            ELSE Times(IF cngnVal = Null THEN 0 ELSE cngnVal,
                       IF rate # NoRate THEN rate ELSE CNGN_USD_FALLBACK),
        trader_address |-> traderAddress(cngnItem),
        pool_address |-> poolAddressB(cngnItem),
        token_in_address |-> tokenIn(its, traderAddress(cngnItem)),
        token_out_address |-> tokenOut(its, traderAddress(cngnItem))]

ProcessB(its, rate) ==
    [k \in 1..Len(cngnItems(its)) |-> RecordB(its, cngnItems(its)[k], rate)]

\* processSingleTransaction once details (and, in variant B, the transfers)
\* have been fetched.
ProcessTransaction ==
    /\ epc = "process"
    /\ txResults' = IF txVariant = "A" THEN ProcessA(token_transfers)
                    ELSE ProcessB(token_transfers, exchange_rate)
    /\ threw' = FALSE
    /\ epc' = "done"
    /\ UNCHANGED <<txVariant, token_transfers, exchange_rate, detailsFrom, pipeVars,
                   vwapVars, decodeVars, csvVars, extractVars>>

\* The transactions on which trader, pool and token flow are looked at:
\* transfers of cNGN and USDT of one amount between a trader (whose address
\* is written in two cases), a second account, a pool and a router.
MaxFlowItems == 3     \* transfers of one transaction

FlowTokens == {"cNGN", "USDT"}

FlowSides ==
    { <<Alice, Pool>>, <<Pool, AliceLower>>, <<Alice, Router>>, <<Router, Pool>>,
      <<Alice, Bob>>, <<Bob, AliceLower>>, <<Pool, Bob>>, <<AliceLower, Alice>> }

FlowItems ==
    {[token |-> t, value |-> <<2, 5>>, from |-> sd[1], to |-> sd[2]] :
        t \in FlowTokens, sd \in FlowSides}

FlowLists == UNION {[1..n -> FlowItems] : n \in 0..MaxFlowItems}

Senders == {Alice.hash, Bob.hash}

EnrichIdle ==
    /\ txVariant = "A"
    /\ token_transfers = <<>>
    /\ exchange_rate = NoRate
    /\ detailsFrom = NoAddress
    /\ txResults = <<>>
    /\ threw = FALSE
    /\ epc = "idle"

(***************************************************************************)
(* The CSV row of a record (index.ts 17-24, 348-352) and its reading       *)
(* (calculate_vwap.ts 34-57, 68-103).  A string is a sequence of           *)
(* characters.                                                             *)
(***************************************************************************)
MaxFieldLen == 2      \* characters of one field
MaxFields == 2        \* fields of one row

Comma == ","
Quote == "\""
Newline == "\n"
Chars == {"a", Comma, Quote, Newline}
FieldStrings == UNION {[1..n -> Chars] : n \in 0..MaxFieldLen}
FieldLists == UNION {[1..n -> FieldStrings] : n \in 1..MaxFields}

\* stringValue.replace(/"/g, '""')
RECURSIVE doubleQuotes(_)
doubleQuotes(str) ==
    IF str = <<>> THEN <<>>
    ELSE (IF Head(str) = Quote THEN <<Quote, Quote>> ELSE <<Head(str)>>)
           \o doubleQuotes(Tail(str))

escapeCsv(str) ==
    IF includes(str, Comma) \/ includes(str, Quote) \/ includes(str, Newline)
    THEN <<Quote>> \o doubleQuotes(str) \o <<Quote>>
    ELSE str

\* Array.prototype.join(sep)
RECURSIVE join(_, _)
join(strs, sep) ==
    IF strs = <<>> THEN <<>>
    ELSE IF Len(strs) = 1 THEN strs[1]
    ELSE strs[1] \o <<sep>> \o join(Tail(strs), sep)

\* The line of one record: CSV_HEADERS.map(escapeCsv).join(',')
csvLine(fs) == join([k \in 1..Len(fs) |-> escapeCsv(fs[k])], Comma)

\* readline: the lines of a text, each ended by a newline.
RECURSIVE lines(_, _)
lines(text, current) ==
    IF text = <<>> THEN (IF current = <<>> THEN <<>> ELSE <<current>>)
    ELSE IF Head(text) = Newline THEN <<current>> \o lines(Tail(text), <<>>)
    ELSE lines(Tail(text), Append(current, Head(text)))

\* The for loop of splitCsvLine from position p on.
RECURSIVE splitFrom(_, _, _, _, _)
splitFrom(ln, p, current, inQuotes, result) ==
    IF p > Len(ln) THEN Append(result, current)
    ELSE IF ln[p] = Quote
    THEN IF inQuotes /\ p + 1 <= Len(ln) /\ ln[p + 1] = Quote
         THEN splitFrom(ln, p + 2, Append(current, Quote), inQuotes, result)
         ELSE splitFrom(ln, p + 1, current, ~inQuotes, result)
    ELSE IF ln[p] = Comma /\ ~inQuotes
    THEN splitFrom(ln, p + 1, <<>>, inQuotes, Append(result, current))
    ELSE splitFrom(ln, p + 1, Append(current, ln[p]), inQuotes, result)

splitCsvLine(ln) == splitFrom(ln, 1, <<>>, FALSE, <<>>)

\* fs.appendFileSync(OUTPUT_FILE, csvLines.join('\n') + '\n') for one record.
WriteRow ==
    /\ cpc = "write"
    /\ csvText' = csvLine(fields) \o <<Newline>>
    /\ cpc' = "read"
    /\ UNCHANGED <<fields, readBack, pipeVars, vwapVars, decodeVars, enrichVars,
                   extractVars>>

\* rl.on('line') for every line of the text, then 'close'.
ReadRows ==
    /\ cpc = "read"
    /\ readBack' = [k \in 1..Len(lines(csvText, <<>>)) |->
                       splitCsvLine(lines(csvText, <<>>)[k])]
    /\ cpc' = "done"
    /\ UNCHANGED <<fields, csvText, pipeVars, vwapVars, decodeVars, enrichVars,
                   extractVars>>

CsvIdle ==
    /\ fields = <<>>
    /\ csvText = <<>>
    /\ readBack = <<>>
    /\ cpc = "idle"

(***************************************************************************)
(* extract_trades.ts: the rows of the ledger that went through the swap    *)
(* router.  A line is the sequence of its fields; the model's ledger has   *)
(* the two columns the filter looks up by name, in either order.           *)
(***************************************************************************)
MaxRows == 3          \* data rows of the ledger file

TARGET_ADDRESS == "0xec2b"     \* '0xec2b2209d710d4283b5d1e29441df0dbb9cee5c3'
TARGET_NAME == "SwapRouter"

Addresses == {"0xEC2B", "0xec2b", "0x5452"}
Names == {"SwapRouter", "swaprouter", "UniswapV3Router"}

HeaderLines ==
    { <<"interacted_contract_address", "interacted_contract_name">>,
      <<"interacted_contract_name", "interacted_contract_address">> }

DataRows == [address : Addresses, name : Names]

\* The line of a data row under a header.
LineOf(hdr, r) ==
    [k \in 1..Len(hdr) |->
        IF hdr[k] = "interacted_contract_address" THEN r.address ELSE r.name]

LedgerFiles ==
    {<<hdr>> \o [k \in 1..Len(rs) |-> LineOf(hdr, rs[k])] :
        hdr \in HeaderLines, rs \in UNION {[1..n -> DataRows] : n \in 0..MaxRows}}

\* headers.forEach((h, i) => row[h] = parts[i] || ''), then row[column] || ''
Column(hdrs, parts, column) ==
    IF \E k \in 1..Len(hdrs) : hdrs[k] = column /\ k <= Len(parts)
    THEN parts[CHOOSE k \in 1..Len(hdrs) :
                  /\ hdrs[k] = column /\ k <= Len(parts)
                  /\ \A j \in (k + 1)..Len(hdrs) : hdrs[j] # column]
    ELSE ""

\* The filter looks at the name alone.
MatchesByName(hdrs, parts) ==
    Column(hdrs, parts, "interacted_contract_name") = TARGET_NAME

\* FILTER CRITERIA (lines 52-56)
Matches(hdrs, parts) ==
    /\ toLowerCase(Column(hdrs, parts, "interacted_contract_address")) = TARGET_ADDRESS
    /\ Column(hdrs, parts, "interacted_contract_name") = TARGET_NAME

\* rl.on('line')
ExtractLine ==
    /\ xpc = "read"
    /\ lineNo < Len(inputLines)
    /\ lineNo' = lineNo + 1
    /\ LET parts == inputLines[lineNo + 1]
       IN IF Len(headers) = 0
          THEN /\ headers' = parts
               /\ written' = Append(written, parts)
               /\ UNCHANGED count
          ELSE IF Matches(headers, parts)
          THEN /\ written' = Append(written, parts)
               /\ count' = count + 1
               /\ UNCHANGED headers
          ELSE UNCHANGED <<headers, written, count>>
    /\ UNCHANGED <<inputLines, xpc, pipeVars, vwapVars, decodeVars, enrichVars, csvVars>>

\* rl.on('close')
ExtractClose ==
    /\ xpc = "read"
    /\ lineNo = Len(inputLines)
    /\ xpc' = "done"
    /\ UNCHANGED <<inputLines, lineNo, headers, count, written, pipeVars, vwapVars,
                   decodeVars, enrichVars, csvVars>>

ExtractIdle ==
    /\ inputLines = <<>>
    /\ lineNo = 0
    /\ headers = <<>>
    /\ count = 0
    /\ written = <<>>
    /\ xpc = "idle"

ToolsIdle == DecodeIdle /\ EnrichIdle /\ CsvIdle /\ ExtractIdle

(***************************************************************************)
(* Specifications.                                                         *)
(***************************************************************************)
PipeIdle ==
    /\ variant = "A"
    /\ observeOrder = FALSE
    /\ upstream = <<>>
    /\ ledger = <<>>
    /\ seenHashes = {}
    /\ recordsSaved = 0
    /\ nextPageParams = Undefined
    /\ currentBatchHashes = <<>>
    /\ listResponse = EmptyPage
    /\ listStatus = "none"
    /\ retries = 0
    /\ delay = 0
    /\ i = 0
    /\ item = <<>>
    /\ pc = "idle"
    /\ runs = 1
    /\ listCalls = 0
    /\ startLen = 0
    /\ windowsOf = [h \in Hashes |-> 0]
    /\ handed = [h \in Hashes |-> 0]

VwapIdle ==
    /\ tz = [before |-> 0, after |-> 0, at |-> 0]
    /\ linesRead = 0
    /\ dailyStats = <<>>
    /\ minDate = NoDate
    /\ maxDate = NoDate
    /\ currentDate = 0
    /\ lastKnownVwap = ZeroPrice
    /\ results = <<>>
    /\ vpc = "idle"
    /\ qualDays = {}
    /\ line = NoLine
    /\ counted = <<>>

PipeStart ==
    /\ variant \in Variants
    /\ upstream \in UpstreamLists
    /\ seenHashes = {}
    /\ recordsSaved = 0
    /\ nextPageParams = Undefined
    /\ currentBatchHashes = <<>>
    /\ listResponse = EmptyPage
    /\ listStatus = "none"
    /\ retries = 0
    /\ delay = 0
    /\ i = 0
    /\ item = <<>>
    /\ pc = "start"
    /\ runs = 1
    /\ listCalls = 0
    /\ startLen = Len(ledger)
    /\ windowsOf = [h \in Hashes |-> IF h \in LedgerHashes(ledger) THEN 1 ELSE 0]
    /\ handed = [h \in Hashes |-> 0]

\* One run of the pipeline on a ledger without duplicate hashes.
Init ==
    /\ ledger \in InitialLedgers
    /\ observeOrder = FALSE
    /\ PipeStart
    /\ VwapIdle
    /\ ToolsIdle

Next ==
    \/ Startup
    \/ OuterTest
    \/ CollectTest
    \/ ListAttempt
    \/ Collected
    \/ ForTest
    \/ \E k \in DOMAIN item : SendDetail(k)
    \/ \E k \in DOMAIN item : DetailResponse(k)
    \/ \E k \in DOMAIN item : TransfersResponse(k)
    \/ \E k \in DOMAIN item : BackoffDone(k)
    \/ AppendWindow
    \/ PauseDone
    \/ AfterBatch

Spec == Init /\ [][Next]_vars

\* The same run with the order of the completions of each window recorded.
InitOrder ==
    /\ ledger \in InitialLedgers
    /\ observeOrder = TRUE
    /\ PipeStart
    /\ VwapIdle
    /\ ToolsIdle

SpecOrder == InitOrder /\ [][Next]_vars

\* Runs that are stopped and started again, the first on a new ledger file.
InitResume ==
    /\ ledger = <<>>
    /\ observeOrder = FALSE
    /\ PipeStart
    /\ VwapIdle
    /\ ToolsIdle

NextResume ==
    \/ Startup
    \/ OuterTest
    \/ CollectTest
    \/ ListAttempt
    \/ Collected
    \/ ForTest
    \/ \E k \in DOMAIN item : SendDetail(k)
    \/ \E k \in DOMAIN item : DetailResponse(k)
    \/ \E k \in DOMAIN item : TransfersResponse(k)
    \/ \E k \in DOMAIN item : BackoffDone(k)
    \/ AppendWindow
    \/ PauseDone
    \/ AfterBatch
    \/ Restart

SpecResume == InitResume /\ [][NextResume]_vars

\* One run of the VWAP builder over a ledger file.
InitVwap ==
    /\ PipeIdle
    /\ ToolsIdle
    /\ tz \in TimeZones
    /\ linesRead = 0
    /\ dailyStats = <<>>
    /\ minDate = NoDate
    /\ maxDate = NoDate
    /\ currentDate = 0
    /\ lastKnownVwap = ZeroPrice
    /\ results = <<>>
    /\ vpc = "read"
    /\ qualDays = {}
    /\ line = NoLine
    /\ counted = <<>>

NextVwap ==
    \/ ReadLine
    \/ CloseInput
    \/ WalkStep

SpecVwap == InitVwap /\ [][NextVwap]_vars

\* The decoding of one amount by one of the two variants.
InitDecode ==
    /\ PipeIdle
    /\ VwapIdle
    /\ ExtractIdle
    /\ EnrichIdle
    /\ CsvIdle
    /\ decoder \in Variants
    /\ value \in DigitStrings
    /\ decimals \in 0..MaxDecimals
    /\ val = NoVal
    /\ decodeError = NoError
    /\ dpc = "decode"

NextDecode == DecodeAmount

SpecDecode == InitDecode /\ [][NextDecode]_vars

\* The decoding of an amount the upstream may send malformed: a value that is
\* empty or holds a letter, decimals below 0.
InitDecodeAny ==
    /\ PipeIdle
    /\ VwapIdle
    /\ ExtractIdle
    /\ EnrichIdle
    /\ CsvIdle
    /\ decoder \in Variants
    /\ value \in DigitStrings \cup MalformedValues
    /\ decimals \in (0 - MaxNegDecimals)..MaxDecimals
    /\ val = NoVal
    /\ decodeError = NoError
    /\ dpc = "decode"

SpecDecodeAny == InitDecodeAny /\ [][NextDecode]_vars

\* One call of processSingleTransaction on a fetched payload.
InitEnrich ==
    /\ PipeIdle
    /\ VwapIdle
    /\ ExtractIdle
    /\ DecodeIdle
    /\ CsvIdle
    /\ txVariant \in Variants
    /\ token_transfers \in ItemLists
    /\ exchange_rate \in ExchangeRates
    /\ detailsFrom = Alice.hash
    /\ txResults = <<>>
    /\ threw = FALSE
    /\ epc = "process"

NextEnrich == ProcessTransaction

SpecEnrich == InitEnrich /\ [][NextEnrich]_vars

\* One call of processSingleTransaction on a payload whose transfers go
\* between several accounts.
InitFlow ==
    /\ PipeIdle
    /\ VwapIdle
    /\ ExtractIdle
    /\ DecodeIdle
    /\ CsvIdle
    /\ txVariant \in Variants
    /\ token_transfers \in FlowLists
    /\ exchange_rate = NoRate
    /\ detailsFrom \in Senders
    /\ txResults = <<>>
    /\ threw = FALSE
    /\ epc = "process"

NextFlow == ProcessTransaction

SpecFlow == InitFlow /\ [][NextFlow]_vars

\* One record written to the ledger file and the file read back.
InitCsv ==
    /\ PipeIdle
    /\ VwapIdle
    /\ ExtractIdle
    /\ DecodeIdle
    /\ EnrichIdle
    /\ fields \in FieldLists
    /\ csvText = <<>>
    /\ readBack = <<>>
    /\ cpc = "write"

NextCsv ==
    \/ WriteRow
    \/ ReadRows

SpecCsv == InitCsv /\ [][NextCsv]_vars

\* One run of extractTrades over a ledger file with a header line.
InitExtract ==
    /\ PipeIdle
    /\ VwapIdle
    /\ DecodeIdle
    /\ EnrichIdle
    /\ CsvIdle
    /\ inputLines \in LedgerFiles
    /\ lineNo = 0
    /\ headers = <<>>
    /\ count = 0
    /\ written = <<>>
    /\ xpc = "read"

NextExtract ==
    \/ ExtractLine
    \/ ExtractClose

SpecExtract == InitExtract /\ [][NextExtract]_vars

(***************************************************************************)
(* Properties.                                                             *)
(***************************************************************************)
StartHashes == LedgerHashes(SubSeq(ledger, 1, startLen))
Appended == SubSeq(ledger, startLen + 1, Len(ledger))
InFlight == Cardinality({k \in DOMAIN item : item[k].st \in {"inflight", "transfers"}})
IsPrefix(s, t) == Len(s) <= Len(t) /\ SubSeq(t, 1, Len(s)) = s

\* C1 (as stated): in every reachable state of a run of either variant,
\* started on a ledger without duplicate hashes, no two rows of the ledger
\* carry the same transaction hash.
C1_NoDuplicateHash ==
    \A a, b \in 1..Len(ledger) : a # b => ledger[a].hash # ledger[b].hash

\* C1 (amended): two rows with the same hash occur in variant B only, and
\* are then the records of different cNGN transfers of that transaction; in
\* variant A no two rows carry the same hash.
C1_NoDuplicateTransfer ==
    \A a, b \in 1..Len(ledger) :
        (a # b /\ ledger[a].hash = ledger[b].hash)
            => (variant = "B" /\ ledger[a].idx # ledger[b].idx)

C1_Witness ==
    /\ variant = "B"
    /\ startLen >= 1
    /\ \E a, b \in (startLen + 1)..Len(ledger) :
          a # b /\ ledger[a].hash = ledger[b].hash

\* C2: a hash that is in the ledger when the run starts is never put into a
\* batch, never fetched and never appended by that run.
C2_DedupIdempotence ==
    \A h \in StartHashes :
        /\ \A p \in 1..Len(currentBatchHashes) : currentBatchHashes[p] # h
        /\ \A k \in DOMAIN item : item[k].hash # h
        /\ h \notin LedgerHashes(Appended)

C2_Witness ==
    /\ \E p \in 1..Len(listResponse.items) : listResponse.items[p] \in StartHashes
    /\ \E p \in 1..Len(upstream), q \in 1..Len(upstream) :
          p # q /\ upstream[p] = upstream[q] /\ upstream[p] \in StartHashes
    /\ Len(Appended) > 0
    /\ pc = "done"

\* C3: over runs that are stopped anywhere and started again, every row once
\* in the ledger stays where it is, and no hash is appended by more than one
\* window.
C3_IdempotentResume ==
    /\ [][IsPrefix(ledger, ledger')]_vars
    /\ [](\A h \in Hashes : windowsOf[h] <= 1)

C3_Witness ==
    /\ runs = 2
    /\ startLen >= 1
    /\ pc = "pause"
    /\ Len(Appended) > 0
    /\ \E p \in 1..Len(listResponse.items) : listResponse.items[p] \in StartHashes

\* C4: at most EXECUTION_CONCURRENCY fetches are in flight at any time.
C4_BoundedConcurrency == InFlight <= EXECUTION_CONCURRENCY

C4_Witness ==
    /\ Len(currentBatchHashes) > EXECUTION_CONCURRENCY
    /\ InFlight = EXECUTION_CONCURRENCY
    /\ \E k \in DOMAIN item : item[k].retries < ItemRetries

\* C5: once a collection pass has ended with an empty batch and the upstream
\* has reported no continuation token, the run stops: it does not go back to
\* the outer loop and makes no further list request.
C5_StopsAtEndOfHistory ==
    [][(/\ pc \in {"collected", "for", "after"}
        /\ Len(currentBatchHashes) = 0
        /\ listStatus = "ok"
        /\ listResponse.next_page_params = Undefined)
          => pc' \in {"for", "after", "done"}]_vars

\* C6: an item whose detail request was answered with 429 or 5xx is backing
\* off for another attempt, or has used up its retry budget.
C6_DetailRetried ==
    \A k \in DOMAIN item :
        item[k].sig \in {"429", "500"}
            => \/ item[k].st = "backoff"
               \/ item[k].st = "done" /\ item[k].retries = 0

\* C7: a failure of one item never aborts the window or the run; an item
\* that fails with a signal that is neither 429 nor 500 is dropped at once,
\* without a retry and without a row; when the window is written, the
\* records of every item that produced some are in the ledger.
C7_ItemFailureIsLocal ==
    /\ pc # "failed"
    /\ \A k \in DOMAIN item :
          item[k].err = "other" => (item[k].st = "done" /\ item[k].out = Null)
    /\ pc = "window" => [k \in DOMAIN item |-> item[k].hash] = Chunk(currentBatchHashes, i)
    /\ pc = "pause" =>
          \A k \in DOMAIN item :
              /\ \A j \in 1..item[k].out :
                    \E p \in (startLen + 1)..Len(ledger) : ledger[p] = Row(item[k].hash, j)
              /\ item[k].out <= 0 => item[k].hash \notin LedgerHashes(Appended)

C7_Witness ==
    /\ pc = "pause"
    /\ \E k1, k2 \in DOMAIN item :
          /\ item[k1].err = "other"
          /\ item[k2].out > 0
          /\ item[k2].hash \in LedgerHashes(Appended)

\* C8: when a run ends without having reached the target count, every hash of
\* the upstream transfer list is in seenHashes.
C8_CompleteHistory ==
    (pc = "done" /\ recordsSaved < TARGET_COUNT) => UpstreamHashes \subseteq seenHashes

\* C9: the list fetcher gives up (returns its empty page) on a 429 or a 5xx
\* only at its last attempt, all earlier ones having been retried.
C9_ListRetriesServerError ==
    [][(pc = "list" /\ pc' # "list" /\ listStatus' \in {"429", "500"})
          => retries = 1]_vars

\* C10: the series has exactly one row for every date from the first to the
\* last date with a qualifying trade, in increasing order.
MinQual == CHOOSE d \in qualDays : \A e \in qualDays : d <= e
MaxQual == CHOOSE d \in qualDays : \A e \in qualDays : d >= e

C10_VwapContiguity ==
    (vpc = "done" /\ qualDays # {}) =>
        [k \in 1..Len(results) |-> results[k].date]
            = [k \in 1..(MaxQual - MinQual + 1) |-> MinQual + k - 1]

\* C11: every row for a date without qualifying volume has zero in both
\* volume fields and the price of the closest earlier date that had volume;
\* when no earlier date had volume its price is 0.
EarlierQual(d) == {e \in qualDays : e < d}
ClosestEarlier(d) == CHOOSE e \in EarlierQual(d) : \A f \in EarlierQual(d) : f <= e

TradesOn(d) == {t \in DOMAIN counted : t.date = d}

RECURSIVE SumCngn(_)
SumCngn(S) ==
    IF S = {} THEN 0
    ELSE LET t == CHOOSE x \in S : TRUE
         IN t.cngn * counted[t] + SumCngn(S \ {t})

RECURSIVE SumUsd(_)
SumUsd(S) ==
    IF S = {} THEN 0
    ELSE LET t == CHOOSE x \in S : TRUE
         IN t.usd * counted[t] + SumUsd(S \ {t})

ThroughRouter(q) == q.contractAddress = "router" /\ q.contractName = "SwapRouter"

C13_TradeQualification ==
    [][(linesRead' = linesRead + 1
          /\ ~(ThroughRouter(line') /\ (isStablecoinTrade(line') \/ isPoolMatch(line'))))
        => (dailyStats' = dailyStats /\ minDate' = minDate /\ maxDate' = maxDate)]_vars

\* The same with the router recognised by the name column alone, as the
\* builder does: holds.
C13_QualificationByName ==
    [][(linesRead' = linesRead + 1
          /\ ~(isSwapRouter(line') /\ (isStablecoinTrade(line') \/ isPoolMatch(line'))))
        => (dailyStats' = dailyStats /\ minDate' = minDate /\ maxDate' = maxDate)]_vars

\* C14: for every string of digits raw and every decimals d >= 0, the amount
\* decoded by variant A and by variant B equals int(raw) / 10^d, for raw
\* shorter than, as long as and longer than d digits and for d = 0.
C14_AmountDecoding ==
    dpc = "done" => val.num * Pow10(decimals) = BigInt(value) * Pow10(val.scale)

\* "150" with 2 decimals gives 1.5 in variant B, "7" with 3 gives 0.007.
C14_Witness ==
    /\ dpc = "done"
    /\ \/ (decoder = "B" /\ value = <<1, 5, 0>> /\ decimals = 2
             /\ val = [num |-> 15, scale |-> 1])
       \/ (decoder = "A" /\ value = <<7>> /\ decimals = 3
             /\ val = [num |-> 7, scale |-> 3])

\* C15: whenever the transaction has a transfer with symbol USDT or USDC,
\* the USD value of every record returned for it is the decoded amount of a
\* stablecoin transfer of the transaction (no fallback rate is applied).
StableItems == {k \in 1..Len(token_transfers) : isStable(token_transfers[k])}

StableAmounts ==
    {Units(Decode(txVariant, token_transfers[k].value, ItemDecimals)) :
        k \in {j \in StableItems : token_transfers[j].value # NoValue}}

C15_DirectStablecoinTier ==
    (/\ epc = "done"
     /\ StableItems # {}
     /\ \A k \in StableItems : token_transfers[k].value # NoValue) =>
        \A r \in 1..Len(txResults) :
            \E a \in StableAmounts :
                txResults[r].usd_value.num = a * txResults[r].usd_value.den

\* C16: a transaction without cNGN transfer gives no record and no error; a
\* transaction with k >= 1 cNGN transfers gives exactly one record in
\* variant A and exactly k records in variant B.
NumCngn == Cardinality({k \in 1..Len(token_transfers) : isCngn(token_transfers[k])})

C17_CsvRoundTrip == cpc = "done" => readBack = <<fields>>

\* The same for fields without newline: holds.
C17_RoundTripWithoutNewline ==
    (cpc = "done" /\ \A k \in 1..Len(fields) : ~includes(fields[k], Newline))
        => readBack = <<fields>>

\* C18: the trades file is the ledger's header line followed, in ledger
\* order and unaltered, by exactly the data rows whose interacted-contract
\* address is the router's (whatever the case of its letters) and whose
\* interacted-contract name is 'SwapRouter'.
AddressOf(ln) == Column(inputLines[1], ln, "interacted_contract_address")
NameOf(ln) == Column(inputLines[1], ln, "interacted_contract_name")
IsRouterRow(ln) == AddressOf(ln) \in {"0xEC2B", "0xec2b"} /\ NameOf(ln) = "SwapRouter"

C19_AppendOnly ==
    [][IsPrefix(ledger, ledger') /\ seenHashes \subseteq seenHashes']_vars

C19_Witness ==
    /\ pc = "done"
    /\ startLen >= 1
    /\ Len(ledger) >= startLen + 2
    /\ \E h \in seenHashes : h \notin LedgerHashes(ledger)
    /\ listCalls >= 2

\* C20: the batch is taken in consecutive windows of at most
\* EXECUTION_CONCURRENCY items.  A window starts only from the loop test;
\* it ends only when every item has finished, with one write of its records
\* to the ledger, followed by the pause; only the pause (or the start of the
\* batch) leads back to the loop test, and the ledger is written nowhere
\* else.
C20_WindowBarrier ==
    [][/\ (pc' = "window" /\ pc # "window") =>
             /\ pc = "for"
             /\ Len(item') <= EXECUTION_CONCURRENCY
             /\ [k \in DOMAIN item' |-> item'[k].hash] = Chunk(currentBatchHashes, i)
             /\ \A k \in DOMAIN item' : item'[k].st = "call"
       /\ (pc = "window" /\ pc' # "window") =>
             /\ \A k \in DOMAIN item : item[k].st = "done"
             /\ pc' = "pause"
             /\ ledger' = ledger \o validResults(item)
       /\ (pc = "pause" /\ pc' # "pause") =>
             /\ pc' = "for"
             /\ i' = i + EXECUTION_CONCURRENCY
       /\ (pc' = "for" /\ pc # "for") => pc \in {"pause", "collected"}
       /\ (pc = "window" /\ pc' = "window") => [k \in DOMAIN item' |-> item'[k].hash]
                                                  = [k \in DOMAIN item |-> item[k].hash]
       /\ ledger' # ledger => pc = "window"]_vars

\* The second window of a batch is running after a first one without record.
C20_Witness ==
    /\ pc = "window"
    /\ i = EXECUTION_CONCURRENCY
    /\ Len(currentBatchHashes) > EXECUTION_CONCURRENCY
    /\ Len(Appended) = 0
    /\ \E k \in DOMAIN item : item[k].st = "inflight"


\* C21: in one run, processSingleTransaction is invoked at most ItemRetries
\* (3) times for any one hash: a hash is taken up by one window at most and
\* each item of a window is tried at most 3 times; an item whose 3 attempts
\* all ended with a retried failure (a message with 429 or 500) has no
\* record, leaves no row in the ledger, and the window is written all the
\* same.
Exhausted(it) == it.st = "done" /\ it.calls = ItemRetries /\ it.err \in {"429", "500"}

C21_RetryBudget ==
    /\ \A h \in Hashes : handed[h] <= 1
    /\ \A k \in DOMAIN item :
          /\ item[k].calls <= ItemRetries
          /\ handed[item[k].hash] = 1
          /\ Exhausted(item[k]) =>
                /\ item[k].out = Null
                /\ pc = "pause" => item[k].hash \notin LedgerHashes(Appended)
    /\ pc # "failed"

\* A window written with the row of one item, the other having used up its
\* three attempts.
C21_Witness ==
    /\ pc = "pause"
    /\ \E k1, k2 \in DOMAIN item :
          /\ Exhausted(item[k1])
          /\ item[k1].retries = 0
          /\ item[k2].out > 0
          /\ item[k2].hash \in LedgerHashes(Appended)

\* C22: a timeout of an upstream call is retried as a server error is.  An
\* invocation of processSingleTransaction whose detail call timed out ends
\* with the item backing off for another attempt; and a list call answered
\* with a timeout goes on to another attempt exactly when the same call
\* answered with a 5xx would.
Running(it) == it.st \in {"inflight", "transfers"}

RetriesAfter500 == ListAttempt /\ listStatus' = "500" /\ pc' = "list"

C22_TimeoutRetryable ==
    [][/\ (pc = "window" /\ pc' = "window") =>
             \A k \in DOMAIN item :
                 (Running(item[k]) /\ ~Running(item'[k]) /\ item'[k].sig = "timeout")
                     => item'[k].st = "backoff"
       /\ (pc = "list" /\ listStatus' = "timeout") =>
             (pc' = "list" <=> ENABLED RetriesAfter500)]_vars

\* C23: a collection pass ends only with a batch of PROCESS_BATCH_SIZE
\* hashes, or with a page without continuation token, or with a page without
\* items.  A page with a token whose items are all known does not end it: the
\* token is taken, the batch stays as it is, and the next page is requested.
AllKnown(resp) ==
    /\ Len(resp.items) > 0
    /\ \A p \in 1..Len(resp.items) : resp.items[p] \in seenHashes

C24_CursorAdvance ==
    [][(pc = "collect" /\ pc' = "list") =>
          IF listCalls = 0
          THEN nextPageParams = Undefined
          ELSE listStatus = "ok" =>
                  /\ listResponse.next_page_params # Undefined
                  /\ nextPageParams = listResponse.next_page_params]_vars

\* C25: in one run every hash is taken up by a window at most once, whatever
\* the upstream lists twice: the batch never holds a hash twice nor one that
\* an earlier batch of the run or the ledger held; and the scan of a page adds
\* each listed hash that is not in seenHashes, once, to seenHashes and to the
\* end of the batch.
FirstNew(items, seen) ==
    {p \in 1..Len(items) :
        /\ items[p] # NoHash
        /\ items[p] \notin seen
        /\ \A q \in 1..(p - 1) : items[q] # items[p]}

RECURSIVE Picked(_, _, _)
Picked(items, idx, p) ==
    IF p > Len(items) THEN <<>>
    ELSE (IF p \in idx THEN <<items[p]>> ELSE <<>>) \o Picked(items, idx, p + 1)

BatchHashes == {currentBatchHashes[p] : p \in 1..Len(currentBatchHashes)}

C25_HandedOnce ==
    /\ [](/\ \A h \in Hashes : handed[h] <= 1
          /\ \A p, q \in 1..Len(currentBatchHashes) :
                p # q => currentBatchHashes[p] # currentBatchHashes[q]
          /\ BatchHashes \subseteq seenHashes
          /\ pc \in {"collect", "list", "collected"} =>
                \A h \in BatchHashes : handed[h] = 0)
    /\ [][(pc = "list" /\ pc' # "list" /\ Len(listResponse'.items) > 0) =>
             /\ seenHashes' = seenHashes \cup
                   {listResponse'.items[p] : p \in FirstNew(listResponse'.items, seenHashes)}
             /\ currentBatchHashes' = currentBatchHashes \o
                   Picked(listResponse'.items,
                          FirstNew(listResponse'.items, seenHashes), 1)]_vars

\* The upstream lists one hash twice on its first page and once more on its
\* second; the window that took it up has written its row.
C25_Witness ==
    /\ pc = "pause"
    /\ upstream = <<1, 1, 1>>
    /\ startLen = 0
    /\ listResponse.items = <<1>>
    /\ handed[1] = 1
    /\ LedgerHashes(Appended) = {1}

\* C26: for a transaction without USDT or USDC transfer, the USD value of
\* every record is its cNGN amount times the exchange rate of the token
\* metadata when there is one, and times CNGN_USD_FALLBACK when there is
\* none, in both variants.
AmountOf(rec) == IF rec.cngn_amount = Null THEN 0 ELSE rec.cngn_amount

RateToApply == IF exchange_rate # NoRate THEN exchange_rate ELSE CNGN_USD_FALLBACK

\* A fraction in lowest terms.
RECURSIVE GCD(_, _)
GCD(a, b) == IF b = 0 THEN a ELSE GCD(b, a % b)

Lowest(f) == [num |-> f.num \div GCD(f.num, f.den), den |-> f.den \div GCD(f.num, f.den)]

C26_FallbackTiers ==
    (epc = "done" /\ StableItems = {}) =>
        \A r \in 1..Len(txResults) :
            Lowest(txResults[r].usd_value)
                = Lowest(Times(AmountOf(txResults[r]), RateToApply))

\* The same for variant B alone, and for variant A without exchange rate in
\* the metadata: holds.
C26_FallbackTiersWhereApplied ==
    (epc = "done" /\ StableItems = {} /\ (txVariant = "B" \/ exchange_rate = NoRate)) =>
        \A r \in 1..Len(txResults) :
            Lowest(txResults[r].usd_value)
                = Lowest(Times(AmountOf(txResults[r]), RateToApply))

\* C27: the record of a cNGN transfer has as trader the 'from' side and as
\* pool the 'to' side when the 'to' side has a pool-like name (with 'Pool' or
\* 'Uniswap'); else, when the 'from' side has one, the 'to' side as trader
\* and the 'from' side as pool; else the 'from' side as trader and the 'to'
\* side as pool.  Variant B has one record per cNGN transfer; the one record
\* of variant A is looked at when the transaction has a single cNGN transfer.
PoolLikeName(side) == includes(side.name, "Pool") \/ includes(side.name, "Uniswap")

TraderByRule(it) ==
    IF PoolLikeName(it.to) THEN it.from.hash
    ELSE IF PoolLikeName(it.from) THEN it.to.hash ELSE it.from.hash

PoolByRule(it) ==
    IF PoolLikeName(it.to) THEN it.to.hash
    ELSE IF PoolLikeName(it.from) THEN it.from.hash ELSE it.to.hash

CngnIndices == {k \in 1..Len(token_transfers) : isCngn(token_transfers[k])}

\* The index of the r-th cNGN transfer.
CngnIndex(r) ==
    CHOOSE k \in CngnIndices : Cardinality({j \in CngnIndices : j <= k}) = r

C27_TraderPoolTieBreak ==
    (epc = "done" /\ (txVariant = "B" \/ NumCngn = 1)) =>
        \A r \in 1..Len(txResults) :
            /\ txResults[r].trader_address = TraderByRule(token_transfers[CngnIndex(r)])
            /\ txResults[r].pool_address = PoolByRule(token_transfers[CngnIndex(r)])

\* The same for variant B alone: holds.
C27_TieBreakVariantB ==
    (epc = "done" /\ txVariant = "B" /\ Len(txResults) = NumCngn) =>
        \A r \in 1..Len(txResults) :
            /\ txResults[r].trader_address = TraderByRule(token_transfers[CngnIndex(r)])
            /\ txResults[r].pool_address = PoolByRule(token_transfers[CngnIndex(r)])

\* C28: with the trader of a record fixed, its token-in is set whenever some
\* transfer of the transaction, of whatever token, has the trader as 'from'
\* (letter case apart) and is then the token of such a transfer; its
\* token-out is set whenever some transfer has the trader as 'to' and is
\* then the token of such a transfer.
SentBy(t) ==
    {k \in 1..Len(token_transfers) : sameAddress(token_transfers[k].from.hash, t)}

ReceivedBy(t) ==
    {k \in 1..Len(token_transfers) : sameAddress(token_transfers[k].to.hash, t)}

TokenFlowOf(rec) ==
    /\ SentBy(rec.trader_address) # {} =>
          \E k \in SentBy(rec.trader_address) :
              rec.token_in_address = token_transfers[k].token
    /\ ReceivedBy(rec.trader_address) # {} =>
          \E k \in ReceivedBy(rec.trader_address) :
              rec.token_out_address = token_transfers[k].token

C28_TokenFlow ==
    epc = "done" => \A r \in 1..Len(txResults) : TokenFlowOf(txResults[r])

\* The same when no transfer goes from the trader to the trader: holds.
C28_TokenFlowWithoutSelfTransfer ==
    epc = "done" =>
        \A r \in 1..Len(txResults) :
            (SentBy(txResults[r].trader_address)
                \cap ReceivedBy(txResults[r].trader_address) = {})
                => TokenFlowOf(txResults[r])

\* C29: the one record of variant A has as cNGN amount the net position of
\* the trader: the cNGN amounts the trader received minus those the trader
\* sent, as an absolute value.  Looked at on transactions whose cNGN
\* transfers all have the trader on exactly one side.
RECURSIVE SumVal(_)
SumVal(S) ==
    IF S = {} THEN 0
    ELSE LET k == CHOOSE x \in S : TRUE
         IN ValA(token_transfers[k]) + SumVal(S \ {k})

Abs(n) == IF n < 0 THEN 0 - n ELSE n

NetPosition(t) ==
    Abs(SumVal(CngnIndices \cap ReceivedBy(t)) - SumVal(CngnIndices \cap SentBy(t)))

C29_NetPosition ==
    (/\ epc = "done"
     /\ txVariant = "A"
     /\ \A k \in CngnIndices :
           (k \in SentBy(detailsFrom)) # (k \in ReceivedBy(detailsFrom))) =>
        \A r \in 1..Len(txResults) :
            txResults[r].cngn_amount = NetPosition(txResults[r].trader_address)

\* What variant A reports: the sum of the amounts of all cNGN transfers.
C29_GrossSum ==
    (epc = "done" /\ txVariant = "A") =>
        \A r \in 1..Len(txResults) : txResults[r].cngn_amount = SumVal(CngnIndices)

\* C30: the read of a row that passes the router and stablecoin filter and
\* has a token amount of at most 0.000001 or a USD amount of at most 0.000001
\* changes no bucket and neither the first nor the last date of the series.
DustRow(ln) ==
    /\ isSwapRouter(ln) /\ (isStablecoinTrade(ln) \/ isPoolMatch(ln))
    /\ ln.cngnRaw # NaN /\ ln.usdRaw # NaN
    /\ (ln.cngnRaw <= Dust \/ ln.usdRaw <= Dust)

C30_DustThreshold ==
    [][(linesRead' = linesRead + 1 /\ DustRow(line')) =>
          (dailyStats' = dailyStats /\ minDate' = minDate /\ maxDate' = maxDate)]_vars

\* A row with a USD amount of exactly 0.000001 has been read after a trade
\* that was counted.
C30_Witness ==
    /\ vpc = "read"
    /\ DustRow(line)
    /\ line.usdRaw = Dust
    /\ line.cngnRaw > Dust
    /\ maxDate # NoDate
    /\ linesRead >= 2

\* C31: the walk emits at most one row per date, every row dated from the
\* first date on and before SAFETY_YEAR_LIMIT (2030-01-01), and it ends.
C31_WalkBounded ==
    /\ \A a, b \in 1..Len(results) : a # b => results[a].date # results[b].date
    /\ \A k \in 1..Len(results) :
          minDate <= results[k].date /\ results[k].date < SafetyDay

\* The part about the ceiling and the first date alone: holds.
C31_BelowCeiling ==
    /\ \A k \in 1..Len(results) :
          minDate <= results[k].date /\ results[k].date < SafetyDay
    /\ Len(results) <= SafetyDay + 1

\* The walk is a sequential loop: once started, each of its steps is taken.
SpecVwapFair == SpecVwap /\ WF_vars(WalkStep)

\* Termination of the walk alone: holds under SpecVwapFair.
C31_WalkTerminates == (vpc = "walk") ~> (vpc = "done")

\* C32: decoding an empty or non-numeric raw amount fails, and so does
\* decoding with negative decimals; a failed decoding yields no amount.
C32_DecoderErrors ==
    dpc = "done" =>
        /\ (value = NoValue \/ ~isNumeric(value)) => decodeError # NoError
        /\ decimals < 0 => decodeError # NoError
        /\ decodeError # NoError => val = NoVal

\* What the decoders do instead: only a value with a letter ends in an
\* exception; an empty value is skipped and leaves the amount 0 (variant A)
\* or null (variant B); with negative decimals a string of digits decodes to
\* the integer it spells.
C32_DecoderOutcomes ==
    dpc = "done" =>
        /\ decodeError # NoError <=> (value # NoValue /\ ~isNumeric(value))
        /\ value = NoValue => val = Skipped(decoder)
        /\ (isNumeric(value) /\ value # NoValue /\ decimals < 0)
              => val = [num |-> BigInt(value), scale |-> 0]

\* The place of hash h in the current batch (0: not in it).
BatchIndex(h) ==
    IF \E p \in 1..Len(currentBatchHashes) : currentBatchHashes[p] = h
    THEN CHOOSE p \in 1..Len(currentBatchHashes) : currentBatchHashes[p] = h
    ELSE 0

\* The rows appended by the run that belong to hashes of the current batch.
BatchRows == SelectSeq(Appended, LAMBDA r : BatchIndex(r.hash) > 0)

\* C33: whatever the order in which the fetches of a window complete, the rows
\* appended for the batch lie in the ledger in the order of the hashes in the
\* batch, and the rows of a window are those of its promises in chunk order.
C33_OrderUnderInterleaving ==
    /\ \A a, b \in 1..Len(BatchRows) :
          a < b => BatchIndex(BatchRows[a].hash) <= BatchIndex(BatchRows[b].hash)
    /\ pc = "pause" =>
          \A k \in 1..Len(item) : \A j \in 1..Len(item) :
             (k < j /\ item[k].out > 0 /\ item[j].out > 0) =>
                \E a, b \in 1..Len(Appended) :
                   /\ a < b
                   /\ Appended[a].hash = item[k].hash
                   /\ Appended[b].hash = item[j].hash

\* A window was appended whose second fetch completed before its first one,
\* which was retried; the rows of the first lie before those of the second.
C33_Witness ==
    /\ pc = "pause"
    /\ Len(item) = 2
    /\ item[1].rank = 2 /\ item[2].rank = 1
    /\ item[1].calls > 1
    /\ item[1].out > 0 /\ item[2].out > 0
    /\ \E a \in 1..Len(Appended) - 1 :
          /\ Appended[a].hash = item[1].hash
          /\ Appended[a + 1].hash = item[2].hash

\* C34: the counter is the number of distinct hashes the run found in the
\* ledger plus the rows it appended; a list request is made only with the
\* counter below TARGET_COUNT; a run started on a ledger with TARGET_COUNT
\* distinct hashes or more makes no request and appends nothing; the run ends
\* after the batch in which the counter reaches the target.
C34_TargetCountGate ==
    /\ [](/\ pc # "start" =>
                recordsSaved = Cardinality(StartHashes) + Len(Appended)
          /\ (pc # "start" /\ Cardinality(StartHashes) >= TARGET_COUNT) =>
                /\ pc \in {"outer", "done"}
                /\ listCalls = 0
                /\ item = <<>>
                /\ Appended = <<>>)
    /\ [][/\ ListAttempt => recordsSaved < TARGET_COUNT
          /\ (pc = "after" /\ recordsSaved >= TARGET_COUNT) => pc' \in {"done", "start"}
          /\ (pc # "done" /\ pc' = "done") => pc \in {"outer", "collected", "after"}]_vars

\* A run that started below the target has ended after the batch in which its
\* counter reached the target.
C34_Witness ==
    /\ pc = "done"
    /\ Cardinality(StartHashes) < TARGET_COUNT
    /\ recordsSaved >= TARGET_COUNT
    /\ Appended # <<>>
    /\ listCalls > 0

\* The buckets, the date range and the prices of the rows.
BucketsPositive ==
    /\ \A d \in DOMAIN dailyStats :
          dailyStats[d].totalCngn > 0 /\ dailyStats[d].totalUsd > 0
    /\ minDate # NoDate => (minDate \in DOMAIN dailyStats /\ maxDate \in DOMAIN dailyStats)
    /\ (minDate = NoDate) <=> (DOMAIN dailyStats = {})

Traded(row) == row.volumeCngn > 0 /\ row.volumeUsd > 0 /\ row.vwap.num > 0

\* C35: every bucket has positive token and USD totals and the first and the
\* last date are dates of buckets; the first and the last row of the series
\* have positive volume and a computed price, and no row has price 0.
C35_PositiveBuckets ==
    /\ BucketsPositive
    /\ \A k \in 1..Len(results) : results[k].vwap.num > 0
    /\ (vpc = "done" /\ results # <<>>) =>
          /\ Traded(results[1])
          /\ Traded(results[Len(results)])

\* The claim without its statement on the last row: holds.
C35_FirstRowAndPrices ==
    /\ BucketsPositive
    /\ \A k \in 1..Len(results) : results[k].vwap.num > 0
    /\ results # <<>> => (Traded(results[1]) /\ results[1].date = minDate)
====
